---- MODULE Spec2Model ----
(***************************************************************************)
(* Model of the phonetic transliteration engine of PROJECT-J               *)
(* (frontend/src/utils/phonetics.ts): romajiMoraToThai and rtgsToKatakana, *)
(* of the display of their hints (frontend/src/components/WordCard.tsx),   *)
(* of the pronunciation scorer and the POST /api/assess handler            *)
(* (backend/src/routes/pronunciation.ts) and of the audio recorder hook    *)
(* (frontend/src/hooks/useAudioRecorder.ts).                               *)
(*                                                                         *)
(* JavaScript strings are modelled as TLA+ strings, one character per      *)
(* UTF-16 code unit.  Thai text (and hiragana and kanji), which the TLA+   *)
(* lexer does not accept in a string literal, is written one code unit at  *)
(* a time as <hhhh> (its                                                   *)
(* hexadecimal code), e.g. "<0E42><0E04>" for the two code units of โค.    *)
(* Katakana is written literally.  Argument strings hold ASCII only; the   *)
(* accented letters and combining marks of the model's character set are   *)
(* written with one ASCII stand-in per code unit:                          *)
(*     @  U+00E2 (a with circumflex)     %  U+00F4 (o with circumflex)     *)
(*     &  U+00C2 (A with circumflex)     ^  U+0302 (combining circumflex)  *)
(*     ~  U+0300 (combining grave)                                         *)
(***************************************************************************)
EXTENDS Integers, Sequences, FiniteSets, TLC

VARIABLES
    pc,       \* "call": the call is about to run; "done": it has returned
    fn,       \* the exported function under call
    input,    \* its string argument
    output,   \* the JavaScript value it returned
    parts,    \* rtgsToKatakana: the per-syllable work of convertRtgsPart
    \* the display layer (WordCard and its PitchDisplay / ToneDisplay)
    mode,       \* the learner mode prop: "th-ja" or "ja-th"
    syllables,  \* entry.syllables: the syllables to display
    shown,      \* what the hint element of each syllable renders
    invoked,    \* the transliteration calls made by the render, in order
    \* the pronunciation scorer (backend/src/routes/pronunciation.ts)
    expected,     \* first argument of the scoring function under call
    transcribed,  \* its second argument
    result,       \* <<>> until it returns, then <<the number returned>>
    \* the audio recorder hook (frontend/src/hooks/useAudioRecorder.ts)
    state,             \* useState: "idle", "recording" or "processing"
    audioBlob,         \* useState: the last recording, or null
    error,             \* useState: the last failure message, or null
    mediaRecorderRef,  \* ref: the current recorder (0: null)
    streamRef,         \* ref: the microphone stream held (0: null)
    chunksRef,         \* ref: the chunks collected, in arrival order
    resolveRef,        \* ref: the stop() promise to resolve (0: null)
    recorders,         \* the MediaRecorder objects created, by number
    streams,           \* the streams getUserMedia gave: is each one active
    pendingStarts,     \* the start() calls suspended at await getUserMedia
    promises,          \* the promises the stop() calls returned, by number
    arrivals,          \* the number of non-empty chunks delivered so far
    startCalls,        \* the number of start() calls made so far
    \* the POST /api/assess handler (backend/src/routes/pronunciation.ts)
    handler,    \* which of the two versions of the handler runs
    apiKey,     \* is process.env.OPENAI_API_KEY set
    body,       \* the request body: expectedWord, expectedRoman, lang
    locals,     \* <<>>, then <<the handler's locals after the transcription>>
    thrown,     \* <<>>, then <<the value a step of the handler threw>>
    response    \* <<>>, then <<how the handler ended and what it returned>>

displayVars == <<mode, syllables, shown, invoked>>

scoreVars == <<expected, transcribed, result>>

hookVars == <<state, audioBlob, error>>

refVars == <<mediaRecorderRef, streamRef, chunksRef, resolveRef>>

recorderVars ==
    <<hookVars, refVars, recorders, streams, pendingStarts, promises, arrivals,
      startCalls>>

assessVars == <<handler, apiKey, body, locals, thrown, response>>

vars ==
    <<pc, fn, input, output, parts, displayVars, scoreVars, recorderVars,
      assessVars>>

-----------------------------------------------------------------------------
(* JavaScript values and string primitives                                 *)

\* A JavaScript string value.
JsString(s) == [type |-> "string", val |-> s]

\* The JavaScript value undefined.
JsUndefined == [type |-> "undefined", val |-> ""]

\* No value yet: the call has not returned.
NoValue == [type |-> "none", val |-> ""]

\* The JavaScript value null.
JsNull == [type |-> "null", val |-> ""]

\* The JavaScript value false, which React renders as nothing.
JsFalse == [type |-> "boolean", val |-> "false"]

\* No transliteration call is under way.
CallIdle == fn = "" /\ input = "" /\ output = NoValue /\ parts = <<>>

\* Nothing is being displayed.
DisplayIdle == mode = "th-ja" /\ syllables = <<>> /\ shown = <<>> /\ invoked = <<>>

\* No scoring call is under way.
ScoreIdle == expected = "" /\ transcribed = "" /\ result = <<>>

\* A Blob made of the chunks q, and the value null where a Blob may stand.
Blob(q) == [isBlob |-> TRUE, chunks |-> q]

NullBlob == [isBlob |-> FALSE, chunks |-> <<>>]

\* No request is being handled.
AssessIdle ==
    /\ handler = "pronunciation.ts"
    /\ apiKey = FALSE
    /\ body = [expectedWord |-> "", expectedRoman |-> "", lang |-> "ja"]
    /\ locals = <<>>
    /\ thrown = <<>>
    /\ response = <<>>

\* The hook as useAudioRecorder constructs it: the initial values of its
\* useState and useRef cells, nothing created or called yet.
RecorderIdle ==
    /\ state = "idle"
    /\ audioBlob = NullBlob
    /\ error = JsNull
    /\ mediaRecorderRef = 0
    /\ streamRef = 0
    /\ chunksRef = <<>>
    /\ resolveRef = 0
    /\ recorders = <<>>
    /\ streams = <<>>
    /\ pendingStarts = <<>>
    /\ promises = <<>>
    /\ arrivals = 0
    /\ startCalls = 0

\* s.charAt(i - 1): the i-th code unit of s as a one-character string.
CharAt(s, i) == SubSeq(s, i, i)

\* s.slice(n): s without its first n code units.
SliceFrom(s, n) == SubSeq(s, n + 1, Len(s))

\* s.slice(0, -n): s without its last n code units.
SliceDropLast(s, n) == SubSeq(s, 1, Len(s) - n)

\* s.startsWith(p)
StartsWith(s, p) == Len(p) <= Len(s) /\ SubSeq(s, 1, Len(p)) = p

\* s.endsWith(p)
EndsWith(s, p) == Len(p) <= Len(s) /\ SubSeq(s, Len(s) - Len(p) + 1, Len(s)) = p

UpperLetters == "ABCDEFGHIJKLMNOPQRSTUVWXYZ"

LowerLetters == "abcdefghijklmnopqrstuvwxyz"

\* The lower case of each capital letter A-Z.
LowerCaseTable ==
    [c \in {CharAt(UpperLetters, i) : i \in 1..Len(UpperLetters)} |->
        CharAt(LowerLetters, CHOOSE i \in 1..Len(UpperLetters) : CharAt(UpperLetters, i) = c)]

\* String.prototype.toLowerCase on one code unit: the letters A-Z and the
\* precomposed capitals of the model's character set map to their lower case,
\* every other code unit to itself.
LowerCaseChar(c) ==
    IF c \in DOMAIN LowerCaseTable THEN LowerCaseTable[c]
    ELSE IF c = "&" THEN "@"
    ELSE c

RECURSIVE ToLowerCase(_)
\* s.toLowerCase()
ToLowerCase(s) ==
    IF s = "" THEN "" ELSE LowerCaseChar(CharAt(s, 1)) \o ToLowerCase(SliceFrom(s, 1))

\* Code units the regular-expression class \s matches: space, tab, line feed
\* (the class holds more; these are the ones of the model's character set).
WhiteSpace == {" ", "\t", "\n"}

\* The class [-\s] of romajiMoraToThai's replace.
HyphenOrSpace == {"-"} \cup WhiteSpace

RECURSIVE RemoveChars(_, _)
\* s.replace(/[C]/g, ''): s without the code units of the class C.
RemoveChars(s, C) ==
    IF s = "" THEN ""
    ELSE (IF CharAt(s, 1) \in C THEN "" ELSE CharAt(s, 1)) \o RemoveChars(SliceFrom(s, 1), C)

-----------------------------------------------------------------------------
(* Japanese romaji mora -> Thai phonetic                                   *)

MORA_TO_THAI ==
    \* bare vowels
    [ a |-> "<0E2D><0E32>", i |-> "<0E2D><0E34>", u |-> "<0E2D><0E38>", e |-> "<0E40><0E2D>", o |-> "<0E42><0E2D>",   \* อา อิ อุ เอ โอ
    \* syllabic N
      n |-> "<0E19>", nn |-> "<0E19>",   \* น น
    \* K row
      ka |-> "<0E04><0E32>", ki |-> "<0E04><0E34>", ku |-> "<0E04><0E38>", ke |-> "<0E40><0E04>", ko |-> "<0E42><0E04>",   \* คา คิ คุ เค โค
    \* S row
      sa |-> "<0E0B><0E32>", shi |-> "<0E0A><0E34>", si |-> "<0E0A><0E34>", su |-> "<0E0B><0E38>", se |-> "<0E40><0E0B>", so |-> "<0E42><0E0B>",   \* ซา ชิ ชิ ซุ เซ โซ
    \* T row
      ta |-> "<0E17><0E32>", chi |-> "<0E0A><0E34>", ti |-> "<0E17><0E34>", tsu |-> "<0E2A><0E36>", tu |-> "<0E17><0E38>", te |-> "<0E40><0E17>", to |-> "<0E42><0E17>",   \* ทา ชิ ทิ สึ ทุ เท โท
    \* N row
      na |-> "<0E19><0E32>", ni |-> "<0E19><0E34>", nu |-> "<0E19><0E38>", ne |-> "<0E40><0E19>", no |-> "<0E42><0E19>",   \* นา นิ นุ เน โน
    \* H row
      ha |-> "<0E2E><0E32>", hi |-> "<0E2E><0E34>", fu |-> "<0E1D><0E38>", hu |-> "<0E2E><0E38>", he |-> "<0E40><0E2E>", ho |-> "<0E42><0E2E>",   \* ฮา ฮิ ฝุ ฮุ เฮ โฮ
    \* M row
      ma |-> "<0E21><0E32>", mi |-> "<0E21><0E34>", mu |-> "<0E21><0E38>", me |-> "<0E40><0E21>", mo |-> "<0E42><0E21>",   \* มา มิ มุ เม โม
    \* Y row
      ya |-> "<0E22><0E32>", yu |-> "<0E22><0E38>", yo |-> "<0E42><0E22>",   \* ยา ยุ โย
    \* R row
      ra |-> "<0E23><0E32>", ri |-> "<0E23><0E34>", ru |-> "<0E23><0E38>", re |-> "<0E40><0E23>", ro |-> "<0E42><0E23>",   \* รา ริ รุ เร โร
    \* W row
      wa |-> "<0E27><0E32>", wi |-> "<0E27><0E34>", we |-> "<0E40><0E27>", wo |-> "<0E42><0E27><0E30>",   \* วา วิ เว โวะ
    \* G row (voiced k)
      ga |-> "<0E01><0E32>", gi |-> "<0E01><0E34>", gu |-> "<0E01><0E38>", ge |-> "<0E40><0E01>", go |-> "<0E42><0E01>",   \* กา กิ กุ เก โก
    \* Z row
      za |-> "<0E0B><0E32>", ji |-> "<0E08><0E34>", zi |-> "<0E08><0E34>", zu |-> "<0E0B><0E38>", ze |-> "<0E40><0E0B>", zo |-> "<0E42><0E0B>",   \* ซา จิ จิ ซุ เซ โซ
    \* D row
      da |-> "<0E14><0E32>", di |-> "<0E14><0E34>", du |-> "<0E14><0E38>", de |-> "<0E40><0E14>", do |-> "<0E42><0E14>",   \* ดา ดิ ดุ เด โด
    \* B row
      ba |-> "<0E1A><0E32>", bi |-> "<0E1A><0E34>", bu |-> "<0E1A><0E38>", be |-> "<0E40><0E1A>", bo |-> "<0E42><0E1A>",   \* บา บิ บุ เบ โบ
    \* P row
      pa |-> "<0E1B><0E32>", pi |-> "<0E1B><0E34>", pu |-> "<0E1B><0E38>", pe |-> "<0E40><0E1B>", po |-> "<0E42><0E1B>",   \* ปา ปิ ปุ เป โป
    \* Compound kana (yōon)
      kya |-> "<0E04><0E22><0E32>", kyu |-> "<0E04><0E22><0E38>", kyo |-> "<0E04><0E42><0E22>",   \* คยา คยุ คโย
      sha |-> "<0E0A><0E32>", shu |-> "<0E0A><0E38>", sho |-> "<0E42><0E0A>",   \* ชา ชุ โช
      cha |-> "<0E0A><0E32>", chu |-> "<0E0A><0E38>", cho |-> "<0E42><0E0A>",   \* ชา ชุ โช
      nya |-> "<0E19><0E22><0E32>", nyu |-> "<0E19><0E22><0E38>", nyo |-> "<0E19><0E42><0E22>",   \* นยา นยุ นโย
      hya |-> "<0E2E><0E22><0E32>", hyu |-> "<0E2E><0E22><0E38>", hyo |-> "<0E2E><0E42><0E22>",   \* ฮยา ฮยุ ฮโย
      mya |-> "<0E21><0E22><0E32>", myu |-> "<0E21><0E22><0E38>", myo |-> "<0E21><0E42><0E22>",   \* มยา มยุ มโย
      rya |-> "<0E23><0E22><0E32>", ryu |-> "<0E23><0E22><0E38>", ryo |-> "<0E23><0E42><0E22>",   \* รยา รยุ รโย
      gya |-> "<0E01><0E22><0E32>", gyu |-> "<0E01><0E22><0E38>", gyo |-> "<0E01><0E42><0E22>",   \* กยา กยุ กโย
      ja |-> "<0E08><0E32>", ju |-> "<0E08><0E38>", jo |-> "<0E42><0E08>",   \* จา จุ โจ
      bya |-> "<0E1A><0E22><0E32>", byu |-> "<0E1A><0E22><0E38>", byo |-> "<0E1A><0E42><0E22>",   \* บยา บยุ บโย
      pya |-> "<0E1B><0E22><0E32>", pyu |-> "<0E1B><0E22><0E38>", pyo |-> "<0E1B><0E42><0E22>" ] \* ปยา ปยุ ปโย

\* The property names a plain object literal inherits from Object.prototype;
\* a property read MORA_TO_THAI[key] finds them when key is no own key.
ObjectPrototypeFunctions ==
    {"constructor", "hasOwnProperty", "isPrototypeOf", "propertyIsEnumerable",
     "toLocaleString", "toString", "valueOf", "__defineGetter__",
     "__defineSetter__", "__lookupGetter__", "__lookupSetter__"}

\* The property read table[key] on the object literal MORA_TO_THAI: an own
\* key first, then the prototype chain, else undefined.
MoraTableGet(key) ==
    IF key \in DOMAIN MORA_TO_THAI THEN JsString(MORA_TO_THAI[key])
    ELSE IF key \in ObjectPrototypeFunctions THEN [type |-> "function", val |-> key]
    ELSE IF key = "__proto__" THEN [type |-> "object", val |-> "Object.prototype"]
    ELSE JsUndefined

\* Mutation of MoraKey: the class of the replace lacks \s, so whitespace
\* stays in the key.
MoraKey_HyphensOnly(roman) == RemoveChars(ToLowerCase(roman), {"-"})

\* The lookup key: roman.toLowerCase().replace(/[-\s]/g, '')
MoraKey(roman) == RemoveChars(ToLowerCase(roman), HyphenOrSpace)

\* Mutation of romajiMoraToThai: the fallback is the key, not the argument
\* (MORA_TO_THAI[key] ?? key).
romajiMoraToThai_KeyFallback(roman) ==
    LET found == MoraTableGet(MoraKey(roman))
    IN  IF found = JsUndefined THEN JsString(MoraKey(roman)) ELSE found

\* romajiMoraToThai(roman): MORA_TO_THAI[key] ?? roman
romajiMoraToThai(roman) ==
    LET found == MoraTableGet(MoraKey(roman))
    IN  IF found = JsUndefined THEN JsString(roman) ELSE found

-----------------------------------------------------------------------------
(* Inputs of romajiMoraToThai                                              *)

\* Bound: every string of at most MaxRomanLen code units over RomanAlphabet.
MaxRomanLen == 3

RomanAlphabet == {"k", "y", "o", "K", "O", "x", "-", " ", "\t"}

RECURSIVE StringsOver(_, _)
\* The strings of at most n code units over the alphabet A.
StringsOver(A, n) ==
    IF n = 0 THEN {""}
    ELSE LET S == StringsOver(A, n - 1) IN S \cup {s \o c : s \in S, c \in A}

\* What may be inserted between two letters of a mora spelling.
InsertedSeparators == {"", "-", " "}

\* The capital of each letter a-z.
UpperCaseTable ==
    [c \in {CharAt(LowerLetters, i) : i \in 1..Len(LowerLetters)} |->
        CharAt(UpperLetters, CHOOSE i \in 1..Len(LowerLetters) : CharAt(LowerLetters, i) = c)]

UpperCaseChar(c) == IF c \in DOMAIN UpperCaseTable THEN UpperCaseTable[c] ELSE c

RECURSIVE SpellingsOf(_)
\* The spellings of the mora m: each letter in either case, a separator or
\* nothing before, between and after the letters.
SpellingsOf(m) ==
    IF m = "" THEN InsertedSeparators
    ELSE {sep \o c \o rest :
            sep \in InsertedSeparators,
            c \in {CharAt(m, 1), UpperCaseChar(CharAt(m, 1))},
            rest \in SpellingsOf(SliceFrom(m, 1))}

\* Strings a caller may pass that are no spelling of a mora.
RomanExamples ==
    {"xyz", "shi", "KY-O", "constructor", "Constructor", "con-structor",
     "__proto__", "toString", "valueOf", "tsu tsu", "n n"}

RomanInputs ==
    UNION {SpellingsOf(m) : m \in DOMAIN MORA_TO_THAI}
        \cup StringsOver(RomanAlphabet, MaxRomanLen)
        \cup RomanExamples

-----------------------------------------------------------------------------
(* Specification of romajiMoraToThai: one call on any input                *)

InitMora ==
    /\ pc = "call"
    /\ fn = "romajiMoraToThai"
    /\ input \in RomanInputs
    /\ output = NoValue
    /\ parts = <<>>
    /\ DisplayIdle
    /\ ScoreIdle
    /\ RecorderIdle
    /\ AssessIdle

CallRomajiMoraToThai ==
    /\ pc = "call"
    /\ fn = "romajiMoraToThai"
    /\ output' = romajiMoraToThai(input)
    /\ pc' = "done"
    /\ UNCHANGED <<fn, input, parts, displayVars, scoreVars, recorderVars, assessVars>>

NextMora == CallRomajiMoraToThai

SpecMora == InitMora /\ [][NextMora]_vars

\* The call of romajiMoraToThai has returned.
MoraReturned == pc = "done" /\ fn = "romajiMoraToThai"

-----------------------------------------------------------------------------
(* Claims about romajiMoraToThai                                           *)

\* c and the lower-case letter d are the same letter up to case.
SameLetterUpToCase(c, d) == c = d \/ c = UpperCaseChar(d)

RECURSIVE DiffersByCaseAndSeparators(_, _)
\* r is the lower-case spelling m with letters possibly capitalised and
\* hyphens or whitespace possibly inserted anywhere.
DiffersByCaseAndSeparators(r, m) ==
    IF r = "" THEN m = ""
    ELSE \/ /\ CharAt(r, 1) \in {"-", " ", "\t", "\n"}
            /\ DiffersByCaseAndSeparators(SliceFrom(r, 1), m)
         \/ /\ m # ""
            /\ SameLetterUpToCase(CharAt(r, 1), CharAt(m, 1))
            /\ DiffersByCaseAndSeparators(SliceFrom(r, 1), SliceFrom(m, 1))

\* C1: for every key m of MORA_TO_THAI and every input that differs from m
\* only by letter case and by inserted hyphens or whitespace, the call
\* returns exactly the string MORA_TO_THAI[m].
C1_SpellingVariantsFindTheMora ==
    MoraReturned =>
        \A m \in DOMAIN MORA_TO_THAI :
            (Len(m) <= Len(input) /\ DiffersByCaseAndSeparators(input, m))
                => output = JsString(MORA_TO_THAI[m])

\* C1 witness: "KY-O" was looked up and gave the entry of kyo.
C1_Witness ==
    /\ MoraReturned
    /\ input = "KY-O"
    /\ DiffersByCaseAndSeparators(input, "kyo")
    /\ output = JsString(MORA_TO_THAI["kyo"])

\* The normalized form of s as the specification words it: lowercased,
\* hyphens and whitespace removed.
NormalizedForm(s) == RemoveChars(ToLowerCase(s), {"-", " ", "\t", "\n"})

\* C2 as stated: when the normalized form of the input is no key of the mora
\* table, the call returns the normalized form of the input.
C2_FallbackIsNormalizedForm ==
    (MoraReturned /\ NormalizedForm(input) \notin DOMAIN MORA_TO_THAI)
        => output = JsString(NormalizedForm(input))

\* C2 amended: when the normalized form of the input is no key of the mora
\* table, the call returns the raw input unchanged (case, hyphens and
\* whitespace kept); only a normalized form naming a property the table
\* object inherits gives that inherited value instead.
C2_FallbackIsRawInput ==
    (MoraReturned /\ NormalizedForm(input) \notin DOMAIN MORA_TO_THAI)
        => IF NormalizedForm(input) \in ObjectPrototypeFunctions \cup {"__proto__"}
           THEN output.type \in {"function", "object"}
           ELSE output = JsString(input)

\* C2 witness: an input that is not in normal form and matches no mora came
\* back as it was passed.
C2_Witness ==
    /\ MoraReturned
    /\ input = "K-x"
    /\ NormalizedForm(input) = "kx"
    /\ "kx" \notin DOMAIN MORA_TO_THAI
    /\ output = JsString("K-x")

\* C3: the call returns a string for every string input, and the returned
\* string is empty only when the input is empty.
C3_TotalAndNonEmpty ==
    MoraReturned =>
        /\ output.type = "string"
        /\ (output.val = "" => input = "")

-----------------------------------------------------------------------------
(* Thai RTGS syllable -> Katakana                                          *)

\* Canonical decomposition of the precomposed letters of the model's
\* character set: the base letter followed by its combining mark.
DecomposedForm == ("@" :> "a^") @@ ("%" :> "o^") @@ ("&" :> "A^")

RECURSIVE NormalizeNFD(_)
\* s.normalize('NFD'): every precomposed letter replaced by its
\* decomposition; every other code unit of the model's character set is
\* its own decomposition.
NormalizeNFD(s) ==
    IF s = "" THEN ""
    ELSE (IF CharAt(s, 1) \in DOMAIN DecomposedForm
          THEN DecomposedForm[CharAt(s, 1)]
          ELSE CharAt(s, 1)) \o NormalizeNFD(SliceFrom(s, 1))

\* The code units of the class [\u0300-\u036f] in the model's character set.
CombiningMarks == {"^", "~"}

\* Mutation of stripDiacritics: nothing is decomposed or removed.
stripDiacritics_Identity(s) == s

\* s.normalize('NFD').replace(/[\u0300-\u036f]/g, '')
stripDiacritics(s) == RemoveChars(NormalizeNFD(s), CombiningMarks)

\* Mutation of ONSET_LIST: the single letters before the clusters.
ONSET_LIST_SinglesFirst ==
    <<"k", "s", "t", "n", "p", "f", "m", "y", "r", "l", "w", "h", "d", "b",
      "ng", "kh", "ph", "th", "ch", "tr", "pr", "pl">>

\* Onset clusters, longest-match first.
ONSET_LIST ==
    <<"ng", "kh", "ph", "th", "ch", "tr", "pr", "pl",
      "k", "s", "t", "n", "p", "f", "m", "y", "r", "l", "w", "h", "d", "b">>

\* Katakana base per onset and base vowel index (0=a 1=i 2=u 3=e 4=o); the
\* tuple position is the index plus one.
ONSET_KATA ==
    ("kh" :> <<"カ", "キ", "ク", "ケ", "コ">>)
    @@ ("ph" :> <<"パ", "ピ", "プ", "ペ", "ポ">>)
    @@ ("th" :> <<"タ", "ティ", "トゥ", "テ", "ト">>)
    @@ ("ch" :> <<"チャ", "チ", "チュ", "チェ", "チョ">>)
    @@ ("tr" :> <<"チャ", "チ", "チュ", "チェ", "チョ">>)
    @@ ("pr" :> <<"プラ", "プリ", "プル", "プレ", "プロ">>)
    @@ ("pl" :> <<"プラ", "プリ", "プル", "プレ", "プロ">>)
    @@ ("ng" :> <<"ンガ", "ンギ", "ング", "ンゲ", "ンゴ">>)
    @@ ("k"  :> <<"カ", "キ", "ク", "ケ", "コ">>)
    @@ ("s"  :> <<"サ", "シ", "ス", "セ", "ソ">>)
    @@ ("t"  :> <<"タ", "ティ", "トゥ", "テ", "ト">>)
    @@ ("n"  :> <<"ナ", "ニ", "ヌ", "ネ", "ノ">>)
    @@ ("p"  :> <<"パ", "ピ", "プ", "ペ", "ポ">>)
    @@ ("f"  :> <<"ファ", "フィ", "フ", "フェ", "フォ">>)
    @@ ("m"  :> <<"マ", "ミ", "ム", "メ", "モ">>)
    @@ ("y"  :> <<"ヤ", "イ", "ユ", "イェ", "ヨ">>)
    @@ ("r"  :> <<"ラ", "リ", "ル", "レ", "ロ">>)
    @@ ("l"  :> <<"ラ", "リ", "ル", "レ", "ロ">>)
    @@ ("w"  :> <<"ワ", "ウィ", "ウ", "ウェ", "ウォ">>)
    @@ ("h"  :> <<"ハ", "ヒ", "フ", "ヘ", "ホ">>)
    @@ ("d"  :> <<"ダ", "ディ", "ドゥ", "デ", "ド">>)
    @@ ("b"  :> <<"バ", "ビ", "ブ", "ベ", "ボ">>)
    @@ (""   :> <<"ア", "イ", "ウ", "エ", "オ">>)

\* Vowel nucleus patterns: <<pattern, <<vowelIdx, katakana suffix>>>>, longest
\* patterns first.
VOWEL_MAP ==
    << <<"uea", <<2, "ア">>>>,
       <<"uaa", <<2, "アー">>>>,
       <<"iaa", <<1, "アー">>>>,
       <<"ia", <<1, "ア">>>>,
       <<"ua", <<2, "ア">>>>,
       <<"aaw", <<4, "ー">>>>,
       <<"aae", <<3, "ー">>>>,
       <<"ooe", <<2, "ー">>>>,
       <<"aa", <<0, "ー">>>>,
       <<"ii", <<1, "ー">>>>,
       <<"uu", <<2, "ー">>>>,
       <<"ee", <<3, "ー">>>>,
       <<"oo", <<4, "ー">>>>,
       <<"aw", <<4, "">>>>,
       <<"ae", <<3, "">>>>,
       <<"oe", <<2, "">>>>,
       <<"a", <<0, "">>>>,
       <<"i", <<1, "">>>>,
       <<"u", <<2, "">>>>,
       <<"e", <<3, "">>>>,
       <<"o", <<4, "">>>> >>

\* Final coda consonant -> Katakana suffix.
CODA_KATA ==
    ("ng" :> "ング")
    @@ ("k"  :> "ク")
    @@ ("t"  :> "ト")
    @@ ("p"  :> "プ")
    @@ ("n"  :> "ン")
    @@ ("m"  :> "ム")
    @@ ("w"  :> "ウ")
    @@ ("y"  :> "イ")

\* The coda candidates of convertRtgsPart, in the order they are tried.
codaKeys == <<"ng", "k", "t", "p", "n", "m", "w", "y">>

\* Mutation of FindOnset: the loop has no break, so the last entry of
\* ONSET_LIST that s starts with is kept.
FindOnset_NoBreak(s) ==
    LET I == {i \in 1..Len(ONSET_LIST) : StartsWith(s, ONSET_LIST[i])}
    IN  IF I = {} THEN ""
        ELSE ONSET_LIST[CHOOSE i \in I : \A j \in I : i >= j]

\* The onset loop: the first entry of ONSET_LIST that s starts with, or ''.
FindOnset(s) ==
    LET I == {i \in 1..Len(ONSET_LIST) : StartsWith(s, ONSET_LIST[i])}
    IN  IF I = {} THEN ""
        ELSE ONSET_LIST[CHOOSE i \in I : \A j \in I : i <= j]

\* Mutation of CodaMatches: the length guard is missing.
CodaMatches_NoLengthGuard(rest, c) == EndsWith(rest, c)

\* The test of the coda loop: rest.endsWith(c) && rest.length > c.length
CodaMatches(rest, c) == EndsWith(rest, c) /\ Len(rest) > Len(c)

\* The coda loop: the first entry of codaKeys that passes the test, or ''.
FindCoda(rest) ==
    LET I == {i \in 1..Len(codaKeys) : CodaMatches(rest, codaKeys[i])}
    IN  IF I = {} THEN ""
        ELSE codaKeys[CHOOSE i \in I : \A j \in I : i <= j]

\* Mutation of FindVowel: the loop has no break, so the last matching
\* pattern is kept.
FindVowel_NoBreak(rest) ==
    LET I == {i \in 1..Len(VOWEL_MAP) :
                rest = VOWEL_MAP[i][1] \/ StartsWith(rest, VOWEL_MAP[i][1])}
    IN  IF I = {} THEN 0 ELSE CHOOSE i \in I : \A j \in I : i >= j

\* The vowel loop: the position in VOWEL_MAP of the first pattern with
\* rest === pattern || rest.startsWith(pattern), or 0 when the loop ends
\* without a match.
FindVowel(rest) ==
    LET I == {i \in 1..Len(VOWEL_MAP) :
                rest = VOWEL_MAP[i][1] \/ StartsWith(rest, VOWEL_MAP[i][1])}
    IN  IF I = {} THEN 0 ELSE CHOOSE i \in I : \A j \in I : i <= j

\* ONSET_KATA[onset] ?? ONSET_KATA['']
OnsetKataRow(onset) ==
    IF onset \in DOMAIN ONSET_KATA THEN ONSET_KATA[onset] ELSE ONSET_KATA[""]

\* Mutation of KataSyllable: the suffix of the matched entry is dropped.
KataSyllable_NoSuffix(onsetKata, v) ==
    IF v = 0 THEN onsetKata[1] ELSE onsetKata[VOWEL_MAP[v][2][1] + 1]

\* Mutation of KataSyllable: the default is onsetKata[1] (vowel i).
KataSyllable_DefaultI(onsetKata, v) ==
    IF v = 0 THEN onsetKata[2]
    ELSE onsetKata[VOWEL_MAP[v][2][1] + 1] \o VOWEL_MAP[v][2][2]

\* kataSyllable: onsetKata[0] by default, onsetKata[vIdx] + suffix for the
\* matched entry of VOWEL_MAP (v is its position, 0 for no match).
KataSyllable(onsetKata, v) ==
    IF v = 0 THEN onsetKata[1]
    ELSE onsetKata[VOWEL_MAP[v][2][1] + 1] \o VOWEL_MAP[v][2][2]

\* CODA_KATA[coda] ?? ''
CodaSuffix(coda) == IF coda \in DOMAIN CODA_KATA THEN CODA_KATA[coda] ELSE ""

\* convertRtgsPart(raw), with the value of every local it computes:
\*   s          the syllable without diacritics, lowercased
\*   onset      the onset consumed ('' for none)
\*   afterOnset rest after step 1
\*   coda       the coda consumed ('' for none)
\*   nucleus    rest after step 2
\*   pattern, vIdx, suffix   the VOWEL_MAP entry matched ('' , 0, '' for none)
\*   out        the string returned
convertRtgsPart(raw) ==
    LET s == ToLowerCase(stripDiacritics(raw))
        onset == FindOnset(s)
        afterOnset == SliceFrom(s, Len(onset))
        coda == FindCoda(afterOnset)
        nucleus == SliceDropLast(afterOnset, Len(coda))
        v == FindVowel(nucleus)
        kataSyllable == KataSyllable(OnsetKataRow(onset), v)
    IN  [raw |-> raw, s |-> s, onset |-> onset, afterOnset |-> afterOnset,
         coda |-> coda, nucleus |-> nucleus,
         pattern |-> IF v = 0 THEN "" ELSE VOWEL_MAP[v][1],
         vIdx |-> IF v = 0 THEN 0 ELSE VOWEL_MAP[v][2][1],
         suffix |-> IF v = 0 THEN "" ELSE VOWEL_MAP[v][2][2],
         out |-> kataSyllable \o CodaSuffix(coda)]

\* Mutation of SplitOnHyphen: the argument is not split.
SplitOnHyphen_NoSplit(s, cur) == <<cur \o s>>

RECURSIVE SplitOnHyphen(_, _)
\* rtgs.split(/-/): the pieces of s between hyphens, cur being the piece
\* under construction.
SplitOnHyphen(s, cur) ==
    IF s = "" THEN <<cur>>
    ELSE IF CharAt(s, 1) = "-" THEN <<cur>> \o SplitOnHyphen(SliceFrom(s, 1), "")
    ELSE SplitOnHyphen(SliceFrom(s, 1), cur \o CharAt(s, 1))

\* Mutation of FilterNonEmpty: the pieces are not filtered.
FilterNonEmpty_KeepAll(pieces) == pieces

\* .filter(Boolean): the non-empty pieces, in order.
FilterNonEmpty(pieces) == SelectSeq(pieces, LAMBDA x : x # "")

RECURSIVE JoinOut_Reversed(_)
\* Mutation of JoinOut: the outputs are joined last part first.
JoinOut_Reversed(ps) ==
    IF ps = <<>> THEN "" ELSE JoinOut_Reversed(Tail(ps)) \o Head(ps).out

RECURSIVE JoinOut(_)
\* .join(''): the outputs of the parts, concatenated.
JoinOut(ps) == IF ps = <<>> THEN "" ELSE Head(ps).out \o JoinOut(Tail(ps))

\* The syllables of rtgsToKatakana(rtgs), each converted by convertRtgsPart.
RtgsParts(rtgs) ==
    LET pieces == FilterNonEmpty(SplitOnHyphen(rtgs, ""))
    IN  [i \in 1..Len(pieces) |-> convertRtgsPart(pieces[i])]

\* rtgsToKatakana(rtgs)
rtgsToKatakana(rtgs) == JoinOut(RtgsParts(rtgs))

-----------------------------------------------------------------------------
(* Inputs of rtgsToKatakana                                                *)

\* Bound: every string of at most MaxRtgsLen code units over RtgsAlphabet.
MaxRtgsLen == 3

RtgsAlphabet == {"k", "h", "n", "g", "t", "w", "a", "e", "o", "-", "K", "@"}

\* Bound: the nuclei of the composed syllables are every string of at most
\* MaxNucleusLen code units over NucleusAlphabet, and every vowel pattern.
MaxNucleusLen == 2

NucleusAlphabet == {"a", "i", "u", "e", "o", "w"}

SeqRange(q) == {q[i] : i \in 1..Len(q)}

\* Syllables composed of an onset or none, a nucleus and a coda or none.
ComposedSyllables ==
    {o \o n \o c :
        o \in SeqRange(ONSET_LIST) \cup {""},
        n \in StringsOver(NucleusAlphabet, MaxNucleusLen)
                \cup {VOWEL_MAP[i][1] : i \in 1..Len(VOWEL_MAP)},
        c \in SeqRange(codaKeys) \cup {""}}

\* The examples of the module's header and of its specification.
RtgsExamples ==
    {"sa-wat", "dee", "khaa", "kham", "ng", "sa-wat-dee", "-sa--wat-",
     "SA-WAT", "Kh@m", "sa~-wa~t", "k%", "T%-k@", "&-o^", "xyz", "----",
     "kaaw", "khaaw", "kawn"}

RtgsInputs ==
    StringsOver(RtgsAlphabet, MaxRtgsLen) \cup ComposedSyllables \cup RtgsExamples

-----------------------------------------------------------------------------
(* Specification of rtgsToKatakana: one call on any input                  *)

InitRtgs ==
    /\ pc = "call"
    /\ fn = "rtgsToKatakana"
    /\ input \in RtgsInputs
    /\ output = NoValue
    /\ parts = <<>>
    /\ DisplayIdle
    /\ ScoreIdle
    /\ RecorderIdle
    /\ AssessIdle

CallRtgsToKatakana ==
    /\ pc = "call"
    /\ fn = "rtgsToKatakana"
    /\ parts' = RtgsParts(input)
    /\ output' = JsString(rtgsToKatakana(input))
    /\ pc' = "done"
    /\ UNCHANGED <<fn, input, displayVars, scoreVars, recorderVars, assessVars>>

NextRtgs == CallRtgsToKatakana

SpecRtgs == InitRtgs /\ [][NextRtgs]_vars

\* The call of rtgsToKatakana has returned.
RtgsReturned == pc = "done" /\ fn = "rtgsToKatakana"

-----------------------------------------------------------------------------
(* Claims about convertRtgsPart and rtgsToKatakana                         *)

\* The entries of ONSET_LIST that s starts with.
OnsetPrefixes(s) == {o \in SeqRange(ONSET_LIST) : StartsWith(s, o)}

\* C4: for every syllable passed to convertRtgsPart the onset consumed is the
\* longest entry of ONSET_LIST that is a prefix of the normalized syllable,
\* or the empty onset when no entry is a prefix; "khaa" and "kham" consume
\* "kh", never "k".
C4_LongestMatchOnset ==
    RtgsReturned =>
        \A i \in 1..Len(parts) :
            LET P == OnsetPrefixes(parts[i].s) IN
            /\ P = {} => parts[i].onset = ""
            /\ P # {} =>
                 /\ parts[i].onset \in P
                 /\ \A o \in P : Len(o) <= Len(parts[i].onset)
            /\ parts[i].s \in {"khaa", "kham"} => parts[i].onset = "kh"
            /\ parts[i].s = parts[i].onset \o parts[i].afterOnset

\* C4 witness: "khaa" was converted and its onset is "kh" although "k" is a
\* prefix too.
C4_Witness ==
    /\ RtgsReturned
    /\ input = "khaa"
    /\ Len(parts) = 1
    /\ OnsetPrefixes(parts[1].s) = {"k", "kh"}
    /\ parts[1].onset = "kh"

\* p is a prefix of q and shorter than q.
ProperPrefix(p, q) == Len(p) < Len(q) /\ StartsWith(q, p)

\* C5: for all positions i < j of ONSET_LIST, the table every call scans,
\* the entry at i is not a proper prefix of the entry at j: every cluster
\* comes before each single letter that is its prefix.
C5_OnsetListOrdering ==
    RtgsReturned =>
        \A i, j \in 1..Len(ONSET_LIST) :
            i < j => ~ProperPrefix(ONSET_LIST[i], ONSET_LIST[j])

\* C5 witness: a syllable starting with a cluster whose first letter is an
\* onset of its own was converted, and the cluster was found first.
C5_Witness ==
    /\ RtgsReturned
    /\ Len(parts) = 1
    /\ parts[1].s = "nga"
    /\ \E i, j \in 1..Len(ONSET_LIST) :
         i < j /\ ONSET_LIST[i] = "ng" /\ ONSET_LIST[j] = "n"
    /\ parts[1].onset = "ng"

\* C6: a coda (one of ng k t p n m w y) is consumed only when the string
\* left after onset removal is strictly longer than the coda, so the
\* nucleus left after a consumed coda is not empty; the syllable "ng" alone
\* is onset "ng", default vowel a, no coda.
C6_CodaGuard ==
    RtgsReturned =>
        \A i \in 1..Len(parts) :
            /\ parts[i].coda # "" =>
                 /\ parts[i].coda \in SeqRange(codaKeys)
                 /\ Len(parts[i].afterOnset) > Len(parts[i].coda)
                 /\ parts[i].nucleus # ""
            /\ parts[i].afterOnset = parts[i].nucleus \o parts[i].coda
            /\ parts[i].s = "ng" =>
                 /\ parts[i].onset = "ng"
                 /\ parts[i].coda = ""
                 /\ parts[i].vIdx = 0
                 /\ parts[i].out = ONSET_KATA["ng"][1]

\* C6 witness: the syllable "kn" was converted; "n" after the onset looks
\* like a coda and was left as the nucleus.
C6_Witness ==
    /\ RtgsReturned
    /\ Len(parts) = 1
    /\ parts[1].s = "kn"
    /\ parts[1].afterOnset = "n"
    /\ parts[1].coda = ""
    /\ parts[1].nucleus = "n"

\* The patterns of VOWEL_MAP that the string x starts with.
VowelPrefixes(x) ==
    {i \in 1..Len(VOWEL_MAP) : StartsWith(x, VOWEL_MAP[i][1])}

\* C7: the VOWEL_MAP pattern selected for the string left after onset and
\* coda removal is the longest pattern that string starts with, and the
\* vowel class and suffix are those of its entry; when no pattern is a
\* prefix the class is a (index 0) and the suffix empty.
C7_LongestVowelPattern ==
    RtgsReturned =>
        \A i \in 1..Len(parts) :
            LET P == VowelPrefixes(parts[i].nucleus) IN
            /\ P = {} =>
                 /\ parts[i].pattern = ""
                 /\ parts[i].vIdx = 0
                 /\ parts[i].suffix = ""
            /\ P # {} =>
                 \E k \in P :
                    /\ \A j \in P : Len(VOWEL_MAP[j][1]) <= Len(VOWEL_MAP[k][1])
                    /\ parts[i].pattern = VOWEL_MAP[k][1]
                    /\ parts[i].vIdx = VOWEL_MAP[k][2][1]
                    /\ parts[i].suffix = VOWEL_MAP[k][2][2]

\* C7 witness: the nucleus "uaa" starts with three patterns (uaa, ua, u) and
\* the longest one was selected.
C7_Witness ==
    /\ RtgsReturned
    /\ Len(parts) = 1
    /\ parts[1].nucleus = "uaa"
    /\ Cardinality(VowelPrefixes(parts[1].nucleus)) = 3
    /\ parts[1].pattern = "uaa"
    /\ parts[1].suffix = "アー"

\* C8: convertRtgsPart returns ONSET_KATA[onset][vowelClass], then the vowel
\* suffix, then CODA_KATA[coda], for the onset, vowel class, suffix and coda
\* the three stages chose; the coda part is empty when no coda was consumed.
C8_Composition ==
    RtgsReturned =>
        \A i \in 1..Len(parts) :
            parts[i].out =
                ONSET_KATA[parts[i].onset][parts[i].vIdx + 1]
                    \o parts[i].suffix
                    \o (IF parts[i].coda = "" THEN "" ELSE CODA_KATA[parts[i].coda])

\* C8 witness: a syllable with an onset, a long vowel and a coda was composed
\* of its three parts in order.
C8_Witness ==
    /\ RtgsReturned
    /\ Len(parts) = 1
    /\ parts[1].s = "khaan"
    /\ parts[1].onset = "kh" /\ parts[1].pattern = "aa" /\ parts[1].coda = "n"
    /\ parts[1].out = "カーン"

\* C9: rtgsToKatakana("sa-wat") is ONSET_KATA['s'][0] + ONSET_KATA['w'][0] +
\* CODA_KATA['t']: "sa" is onset s, vowel a, no coda; "wat" is onset w,
\* vowel a, coda t.
C9_SaWat ==
    (RtgsReturned /\ input = "sa-wat") =>
        /\ output = JsString(ONSET_KATA["s"][1] \o ONSET_KATA["w"][1] \o CODA_KATA["t"])
        /\ Len(parts) = 2
        /\ parts[1].s = "sa" /\ parts[1].onset = "s" /\ parts[1].vIdx = 0
        /\ parts[1].pattern = "a" /\ parts[1].coda = ""
        /\ parts[2].s = "wat" /\ parts[2].onset = "w" /\ parts[2].vIdx = 0
        /\ parts[2].pattern = "a" /\ parts[2].coda = "t"

\* C9 witness: "sa-wat" was converted.
C9_Witness == RtgsReturned /\ input = "sa-wat" /\ output = JsString("サワト")

\* C10: the examples of the module's header comment hold: "sa-wat" gives
\* "サワット" and "dee" gives "ディー".
C10_DocumentedExamples ==
    RtgsReturned =>
        /\ input = "sa-wat" => output = JsString("サワット")
        /\ input = "dee" => output = JsString("ディー")

\* The positions of the hyphens of s.
HyphenPositions(s) == {k \in 1..Len(s) : CharAt(s, k) = "-"}

RECURSIVE JoinRaw(_)
\* The syllables handed to convertRtgsPart, concatenated in order.
JoinRaw(ps) == IF ps = <<>> THEN "" ELSE Head(ps).raw \o JoinRaw(Tail(ps))

\* C11: for all strings x and y, rtgsToKatakana(x + "-" + y) is
\* rtgsToKatakana(x) followed by rtgsToKatakana(y); the segments are
\* converted one by one in input order and joined with no separator, and
\* leading, trailing or repeated hyphens contribute nothing.
C11_Compositional ==
    RtgsReturned =>
        /\ \A k \in HyphenPositions(input) :
             output.val = rtgsToKatakana(SubSeq(input, 1, k - 1))
                            \o rtgsToKatakana(SliceFrom(input, k))
        /\ \A i \in 1..Len(parts) :
             /\ parts[i].raw # ""
             /\ HyphenPositions(parts[i].raw) = {}
             /\ parts[i] = convertRtgsPart(parts[i].raw)
        /\ JoinRaw(parts) = RemoveChars(input, {"-"})
        /\ output.val = JoinOut(parts)

\* C11 witness: "-sa--wat-" was converted as the two syllables sa and wat.
C11_Witness ==
    /\ RtgsReturned
    /\ input = "-sa--wat-"
    /\ Len(parts) = 2
    /\ parts[1].raw = "sa" /\ parts[2].raw = "wat"
    /\ output.val = rtgsToKatakana("sa") \o rtgsToKatakana("wat")
    /\ output.val = "サワト"

\* C12: rtgsToKatakana("") is "", and so is the result for any input made
\* of hyphens only.
C12_HyphensOnlyGiveEmpty ==
    (RtgsReturned /\ HyphenPositions(input) = 1..Len(input))
        => /\ output = JsString("")
           /\ parts = <<>>

\* C12 witness: the empty string was converted to the empty string.
C12_Witness == RtgsReturned /\ input = "" /\ output = JsString("")

\* C13: the call returns a string for every input; a syllable starting with
\* no ONSET_LIST entry uses the row ONSET_KATA[''], a nucleus matching no
\* vowel pattern uses vowel class a (index 0) with no suffix, and a syllable
\* with no consumed coda gets no coda suffix.
C13_TotalWithDefaults ==
    RtgsReturned =>
        /\ output.type = "string"
        /\ \A i \in 1..Len(parts) :
             LET row == IF OnsetPrefixes(parts[i].s) = {}
                        THEN ONSET_KATA[""]
                        ELSE ONSET_KATA[parts[i].onset]
                 base == IF VowelPrefixes(parts[i].nucleus) = {}
                         THEN row[1]
                         ELSE row[parts[i].vIdx + 1] \o parts[i].suffix
             IN  /\ parts[i].coda = "" => parts[i].out = base
                 /\ parts[i].coda # "" => parts[i].out = base \o CODA_KATA[parts[i].coda]

\* C13 witness: "xyz" starts with no onset, has no vowel pattern and no
\* coda to consume, and gave the a of the vowel-only row.
C13_Witness ==
    /\ RtgsReturned
    /\ input = "xyz"
    /\ Len(parts) = 1
    /\ OnsetPrefixes(parts[1].s) = {}
    /\ VowelPrefixes(parts[1].nucleus) = {}
    /\ parts[1].coda = ""
    /\ output = JsString("ア")

\* The code unit c without its diacritic and in lower case; a combining
\* mark leaves nothing.
PlainLetter(c) ==
    CASE c \in {"@", "&"} -> "a"
      [] c = "%" -> "o"
      [] c \in {"^", "~"} -> ""
      [] c \in DOMAIN LowerCaseTable -> LowerCaseTable[c]
      [] OTHER -> c

RECURSIVE PlainSpelling(_)
\* s with every diacritic removed and every letter in lower case.
PlainSpelling(s) ==
    IF s = "" THEN "" ELSE PlainLetter(CharAt(s, 1)) \o PlainSpelling(SliceFrom(s, 1))

\* C14: the result for a spelling equals the result for that spelling with
\* its diacritics removed and its letters lowercased.
C14_Normalization ==
    RtgsReturned =>
        /\ output.val = rtgsToKatakana(PlainSpelling(input))
        /\ \A i \in 1..Len(parts) :
             /\ parts[i].s = PlainSpelling(parts[i].raw)
             /\ parts[i].out = convertRtgsPart(parts[i].s).out

\* C14 witness: the spelling T, o-circumflex, hyphen, k, a-circumflex gave
\* what "to-ka" gives.
C14_Witness ==
    /\ RtgsReturned
    /\ input = "T%-k@"
    /\ PlainSpelling(input) = "to-ka"
    /\ output.val = rtgsToKatakana("to-ka")
    /\ output.val = "トカ"

\* C21: for every listed onset o, the syllable o + "aw" is rendered as the
\* o-class base of the onset with no suffix, ONSET_KATA[o][4], and o + "aaw"
\* as ONSET_KATA[o][4] followed by the long mark, as the VOWEL_MAP entries
\* of 'aw' and 'aaw' state.
C21_AwNucleus ==
    RtgsReturned =>
        \A o \in SeqRange(ONSET_LIST) :
            /\ input = o \o "aw" => output = JsString(ONSET_KATA[o][5])
            /\ input = o \o "aaw" => output = JsString(ONSET_KATA[o][5] \o "ー")

-----------------------------------------------------------------------------
(* The display layer: WordCard renders the syllables of an entry           *)

\* a ?? ...: the right operand is evaluated only for null and undefined.
IsNullish(a) == a.type \in {"undefined", "null"}

\* Mutation of NeedsFallback: a || ..., so every falsy hint, the empty
\* string included, gives way to the call.
NeedsFallback_Falsy(hint) == IsNullish(hint) \/ hint = JsString("")

\* The left operand of s.thai ?? ... and s.katakana ?? ... sends the render
\* to the right operand.
NeedsFallback(hint) == IsNullish(hint)

\* PitchDisplay, hint element of one syllable:
\*   {s.thai ?? romajiMoraToThai(s.roman)}
\* with the calls the expression makes.
PitchHint(s) ==
    IF NeedsFallback(s.thai)
    THEN [shown |-> romajiMoraToThai(s.roman),
          calls |-> <<[fn |-> "romajiMoraToThai", arg |-> s.roman]>>]
    ELSE [shown |-> s.thai, calls |-> <<>>]

\* ToneDisplay, hint element of one syllable:
\*   {mode === 'ja-th' && (<span>{s.katakana ?? rtgsToKatakana(s.roman)}</span>)}
ToneHint(s, m) ==
    IF m # "ja-th" THEN [shown |-> JsFalse, calls |-> <<>>]
    ELSE IF NeedsFallback(s.katakana)
    THEN [shown |-> JsString(rtgsToKatakana(s.roman)),
          calls |-> <<[fn |-> "rtgsToKatakana", arg |-> s.roman]>>]
    ELSE [shown |-> s.katakana, calls |-> <<>>]

\* WordCard: isJapanese ? <PitchDisplay .../> : <ToneDisplay ... mode={mode}/>
\* for one syllable, isJapanese being mode === 'th-ja'.
SyllableHint(s, m) == IF m = "th-ja" THEN PitchHint(s) ELSE ToneHint(s, m)

RECURSIVE FlattenCalls(_)
\* The calls of syllables.map(...), in syllable order.
FlattenCalls(hs) == IF hs = <<>> THEN <<>> ELSE Head(hs).calls \o FlattenCalls(Tail(hs))

\* Bound: an entry has at most MaxSyllables syllables.
MaxSyllables == 2

\* The values the optional hint field of a syllable may hold: absent, null,
\* the empty string, a precomputed hint.
ThaiHints == {JsUndefined, JsNull, JsString(""), JsString("<0E04><0E32>")}

KatakanaHints == {JsUndefined, JsNull, JsString(""), JsString("サワット")}

\* Japanese moras as the vocabulary holds them (PitchSyllable).
PitchSyllables ==
    [roman : {"ka", "KY-O", "xyz"}, thai : ThaiHints, katakana : {JsUndefined}]

\* Thai syllables as the vocabulary holds them (ThaiSyllable): the thai
\* field is the Thai script of the syllable.
ThaiSyllables ==
    [roman : {"sa", "wat", "dee"}, thai : {JsString("<0E2A><0E27><0E31><0E2A>")},
     katakana : KatakanaHints]

\* The sequences of at most n elements of S.
SeqsUpTo(S, n) == UNION {[1..k -> S] : k \in 0..n}

InitDisplay ==
    /\ pc = "render"
    /\ CallIdle
    /\ \/ mode = "th-ja" /\ syllables \in SeqsUpTo(PitchSyllables, MaxSyllables)
       \/ mode = "ja-th" /\ syllables \in SeqsUpTo(ThaiSyllables, MaxSyllables)
    /\ shown = <<>>
    /\ invoked = <<>>
    /\ ScoreIdle
    /\ RecorderIdle
    /\ AssessIdle

\* One render of the syllable block of WordCard.
RenderWordCard ==
    /\ pc = "render"
    /\ LET hs == [i \in 1..Len(syllables) |-> SyllableHint(syllables[i], mode)]
       IN  /\ shown' = [i \in 1..Len(syllables) |-> hs[i].shown]
           /\ invoked' = FlattenCalls(hs)
    /\ pc' = "rendered"
    /\ UNCHANGED <<fn, input, output, parts, mode, syllables, scoreVars, recorderVars, assessVars>>

NextDisplay == RenderWordCard

SpecDisplay == InitDisplay /\ [][NextDisplay]_vars

\* The hint field the display of syllable s reads in mode m.
HintField(s, m) == IF m = "th-ja" THEN s.thai ELSE s.katakana

\* The transliteration function of mode m.
HintFunction(m) == IF m = "th-ja" THEN "romajiMoraToThai" ELSE "rtgsToKatakana"

\* The number of syllables among the first i whose hint is absent.
AbsentUpTo(i) ==
    Cardinality({j \in 1..i : HintField(syllables[j], mode).type \in {"undefined", "null"}})

\* C16: for every displayed syllable, a precomputed hint (thai for a
\* Japanese mora, katakana for a Thai syllable) is shown as it is and no
\* transliteration call is made for it; a call is made, on the syllable's
\* roman field, exactly for the syllables whose hint is absent.
C16_HintTakesPrecedence ==
    pc = "rendered" =>
        /\ Len(shown) = Len(syllables)
        /\ Len(invoked) = AbsentUpTo(Len(syllables))
        /\ \A i \in 1..Len(syllables) :
             LET h == HintField(syllables[i], mode) IN
             IF h.type \in {"undefined", "null"}
             THEN /\ invoked[AbsentUpTo(i)] =
                        [fn |-> HintFunction(mode), arg |-> syllables[i].roman]
                  /\ shown[i] = IF mode = "th-ja"
                                THEN romajiMoraToThai(syllables[i].roman)
                                ELSE JsString(rtgsToKatakana(syllables[i].roman))
             ELSE shown[i] = h

\* C16 witness: of two Thai syllables the first carries the empty string as
\* its hint and the second none; one call was made, for the second.
C16_Witness ==
    /\ pc = "rendered"
    /\ mode = "ja-th"
    /\ Len(syllables) = 2
    /\ syllables[1].katakana = JsString("")
    /\ syllables[2].katakana = JsUndefined
    /\ syllables[2].roman = "wat"
    /\ shown = <<JsString(""), JsString("ワト")>>
    /\ invoked = <<[fn |-> "rtgsToKatakana", arg |-> "wat"]>>

-----------------------------------------------------------------------------
(* The pronunciation scorer: levenshtein and calcAccuracy                  *)

\* idx(i, j) of levenshtein: the place of cell (i, j) in the flat table dp,
\* whose rows hold n + 1 cells.
idx(i, j, n) == i * (n + 1) + j

\* Math.min of three numbers.
MathMin3(x, y, z) ==
    IF x <= y /\ x <= z THEN x ELSE IF y <= z THEN y ELSE z

\* Mutation of EditStep: the substitution neighbour is left out of the minimum.
EditStep_NoSubstitution(del, ins, sub) ==
    1 + (IF del <= ins THEN del ELSE ins)

\* The cell of two prefixes whose last characters differ: one more than the
\* least of the cells above, to the left and diagonally above.
EditStep(del, ins, sub) == 1 + MathMin3(del, ins, sub)

\* The table dp of levenshtein(a, b), filled cell by cell in the order of the
\* flat index; dp holds the cells 0 .. Len(dp) - 1 filled so far (the cell of
\* flat index k is dp[k + 1]).  Column 0 and row 0 hold i and j; every other
\* cell reads cells of smaller flat index only.
RECURSIVE FillDp(_, _, _)
FillDp(a, b, dp) ==
    LET m == Len(a)
        n == Len(b)
        k == Len(dp)
        i == k \div (n + 1)
        j == k % (n + 1)
        at(p, q) == dp[idx(p, q, n) + 1]
        cell == IF j = 0 THEN i
                ELSE IF i = 0 THEN j
                ELSE IF CharAt(a, i) = CharAt(b, j) THEN at(i - 1, j - 1)
                ELSE EditStep(at(i - 1, j), at(i, j - 1), at(i - 1, j - 1))
    IN  IF k = (m + 1) * (n + 1) THEN dp ELSE FillDp(a, b, Append(dp, cell))

\* levenshtein(a, b): the last cell of the table.
levenshtein(a, b) == FillDp(a, b, <<>>)[idx(Len(a), Len(b), Len(b)) + 1]

\* Math.round of the fraction num / den (den > 0): the nearest integer, a
\* half rounding up.  (For strings of the model's lengths the double that
\* JavaScript computes lies within 1e-13 of the fraction and every half is
\* exact, so the rounding of the double is the rounding of the fraction.)
MathRound(num, den) == (2 * num + den) \div (2 * den)

\* Mutation of MathMax0: the number is not clamped.
MathMax0_NoClamp(x) == x

\* Math.max(0, x).
MathMax0(x) == IF x < 0 THEN 0 ELSE x

\* s.toLowerCase().replace(/\s+/g, ''): every run of white space is removed.
NormalizeForScore(s) == RemoveChars(ToLowerCase(s), WhiteSpace)

\* calcAccuracy(expected, transcribed).
calcAccuracy(e, t) ==
    LET a == NormalizeForScore(e)
        b == NormalizeForScore(t)
        dist == levenshtein(a, b)
    IN  IF Len(a) = 0 THEN 0
        ELSE MathMax0(MathRound((Len(a) - dist) * 100, Len(a)))

\* Bound: the arguments of the scorer are every string of at most MaxScoreLen
\* characters of ScoreAlphabet.
MaxScoreLen == 3

\* A letter, its upper case (another code unit, the same letter once
\* lowercased) and white space.
ScoreAlphabet == {"a", "A", " "}

ScoreInputs == StringsOver(ScoreAlphabet, MaxScoreLen)

(* Specification of the scorer: one call of levenshtein or of calcAccuracy *)

InitScore ==
    /\ pc = "call"
    /\ fn \in {"levenshtein", "calcAccuracy"}
    /\ input = ""
    /\ output = NoValue
    /\ parts = <<>>
    /\ DisplayIdle
    /\ expected \in ScoreInputs
    /\ transcribed \in ScoreInputs
    /\ result = <<>>
    /\ RecorderIdle
    /\ AssessIdle

CallLevenshtein ==
    /\ pc = "call"
    /\ fn = "levenshtein"
    /\ result' = <<levenshtein(expected, transcribed)>>
    /\ pc' = "done"
    /\ UNCHANGED <<fn, input, output, parts, displayVars, expected, transcribed,
                 recorderVars, assessVars>>

CallCalcAccuracy ==
    /\ pc = "call"
    /\ fn = "calcAccuracy"
    /\ result' = <<calcAccuracy(expected, transcribed)>>
    /\ pc' = "done"
    /\ UNCHANGED <<fn, input, output, parts, displayVars, expected, transcribed,
                 recorderVars, assessVars>>

NextScore == CallLevenshtein \/ CallCalcAccuracy

SpecScore == InitScore /\ [][NextScore]_vars

\* The call of f has returned.
ScoreReturned(f) == pc = "done" /\ fn = f

-----------------------------------------------------------------------------
(* Claims about the scorer                                                 *)

\* C17: calcAccuracy returns an integer of 0..100 for every pair of strings:
\* 0 when expected is empty once lowercased and stripped of white space, 100
\* when the two normalized strings are equal and not empty.
C17_AccuracyRange ==
    ScoreReturned("calcAccuracy") =>
        LET a == NormalizeForScore(expected)
            b == NormalizeForScore(transcribed)
        IN  /\ result[1] \in 0..100
            /\ a = "" => result[1] = 0
            /\ (a = b /\ a # "") => result[1] = 100

\* C17 witness: two arguments that differ in case and white space only score
\* 100.
C17_Witness ==
    /\ ScoreReturned("calcAccuracy")
    /\ expected = " Aa"
    /\ transcribed = "a A"
    /\ result = <<100>>

\* The characters of s.
CharsOf(s) == {CharAt(s, i) : i \in 1..Len(s)}

\* The strings one single-character edit away from s: a deletion, an
\* insertion or a substitution of a character of Sigma.
OneEdit(s, Sigma) ==
    {SubSeq(s, 1, i - 1) \o SubSeq(s, i + 1, Len(s)) : i \in 1..Len(s)}
    \cup {SubSeq(s, 1, i) \o c \o SubSeq(s, i + 1, Len(s)) : i \in 0..Len(s), c \in Sigma}
    \cup {SubSeq(s, 1, i - 1) \o c \o SubSeq(s, i + 1, Len(s)) : i \in 1..Len(s), c \in Sigma}

\* The strings at most k edits away from a from which b is still within
\* reach: an edit changes the length by at most one, so a string whose
\* length differs from that of b by more than the edits left is dropped.
RECURSIVE WithinEdits(_, _, _, _)
WithinEdits(a, b, k, left) ==
    IF k = 0 THEN {a}
    ELSE LET P == WithinEdits(a, b, k - 1, left + 1)
             N == P \cup UNION {OneEdit(s, CharsOf(a) \cup CharsOf(b)) : s \in P}
         IN  {s \in N : Len(s) - Len(b) <= left /\ Len(b) - Len(s) <= left}

\* k edits suffice to turn a into b.
EditsSuffice(a, b, k) == b \in WithinEdits(a, b, k, 0)

\* C18: levenshtein(a, b) is the least number of single-character
\* insertions, deletions and substitutions that turn a into b; it is 0
\* exactly when a = b, and levenshtein(b, a) is the same number.
C18_EditDistance ==
    ScoreReturned("levenshtein") =>
        LET d == result[1] IN
        /\ d \in 0..(Len(expected) + Len(transcribed))
        /\ EditsSuffice(expected, transcribed, d)
        /\ d > 0 => ~EditsSuffice(expected, transcribed, d - 1)
        /\ d = 0 <=> expected = transcribed
        /\ levenshtein(transcribed, expected) = d

\* C18 witness: "aAa" becomes " aA" by no fewer than two edits (a deletion
\* and an insertion; three substitutions would do it too).
C18_Witness ==
    /\ ScoreReturned("levenshtein")
    /\ expected = "aAa"
    /\ transcribed = " aA"
    /\ result = <<2>>

-----------------------------------------------------------------------------
(* The audio recorder hook: useAudioRecorder                               *)
(*                                                                         *)
(* pc is "mounted" while the component that uses the hook is mounted and   *)
(* "unmounted" afterwards.  A state setter called by a handler takes       *)
(* effect with the handler (the component is rendered again before the     *)
(* next event is handled), and is without effect once the component is     *)
(* unmounted.  Chunks are numbered in the order of their arrival; a Blob   *)
(* is the sequence of the chunks it was built from.  Times (startTimeRef,  *)
(* durationMs) and the MIME type are left out.                             *)

\* Bounds: the number of start() calls, of stop() calls and of non-empty
\* chunks in one run.
MaxStartCalls == 2

MaxStopCalls == 2

MaxChunks == 2

\* q without its i-th element.
RemoveAt(q, i) == SubSeq(q, 1, i - 1) \o SubSeq(q, i + 1, Len(q))

\* A state setter of the hook: the new value while the component is mounted.
SetState(cur, new) == IF pc = "mounted" THEN new ELSE cur

\* resolveRef.current?.(v): settles the promise p unless p is null (0) or
\* already settled.
Resolve(ps, p, v) ==
    IF p = 0 \/ ps[p].status # "pending" THEN ps
    ELSE [ps EXCEPT ![p] = [@ EXCEPT !.status = "resolved", !.value = v]]

\* How the creation of a recorder may end: it records; new MediaRecorder
\* throws; recorder.start throws.
StartOutcomes == {"ok", "ctorThrows", "startThrows"}

\* The sizes of the data a dataavailable event may carry.
ChunkSizes == {0, 1}

\* streamRef.current?.active
StreamActive == streamRef # 0 /\ streams[streamRef]

\* Mutation of RecordOn: the catch clause leaves the state at recording.
RecordOn_RecordingOnFailure(s, mark, outcome) ==
    /\ recorders' =
         IF outcome = "ctorThrows" THEN recorders
         ELSE Append(recorders,
                     [st |-> IF outcome = "ok" THEN "recording" ELSE "inactive",
                      stream |-> s, mark |-> mark])
    /\ mediaRecorderRef' =
         IF outcome = "ctorThrows" THEN mediaRecorderRef ELSE Len(recorders) + 1
    /\ state' = SetState(state, "recording")

\* start() from "const stream = streamRef.current" to its end, on stream s,
\* for the start() call made when mark chunks had arrived: the recorder is
\* created, becomes the current one and records, or the catch clause runs.
RecordOn(s, mark, outcome) ==
    /\ recorders' =
         IF outcome = "ctorThrows" THEN recorders
         ELSE Append(recorders,
                     [st |-> IF outcome = "ok" THEN "recording" ELSE "inactive",
                      stream |-> s, mark |-> mark])
    /\ mediaRecorderRef' =
         IF outcome = "ctorThrows" THEN mediaRecorderRef ELSE Len(recorders) + 1
    /\ state' = SetState(state, IF outcome = "ok" THEN "recording" ELSE "idle")

\* start(): clears error, audioBlob and the chunks; with an active stream it
\* runs to its end at once, without one it suspends at await getUserMedia.
Start ==
    /\ pc = "mounted"
    /\ startCalls < MaxStartCalls
    /\ startCalls' = startCalls + 1
    /\ audioBlob' = NullBlob
    /\ chunksRef' = <<>>
    /\ IF StreamActive
       THEN \E outcome \in StartOutcomes :
                /\ RecordOn(streamRef, arrivals, outcome)
                /\ error' = IF outcome = "ok" THEN JsNull
                            ELSE JsString("recorder failure")
                /\ UNCHANGED pendingStarts
       ELSE /\ error' = JsNull
            /\ pendingStarts' = Append(pendingStarts, arrivals)
            /\ UNCHANGED <<state, mediaRecorderRef, recorders>>
    /\ UNCHANGED <<pc, fn, input, output, parts, displayVars, scoreVars, assessVars,
                   streamRef, resolveRef, streams, promises, arrivals>>

\* getUserMedia grants the i-th suspended start() a stream: start() resumes.
GetUserMediaResolves(i) ==
    /\ i \in 1..Len(pendingStarts)
    /\ streams' = Append(streams, TRUE)
    /\ streamRef' = Len(streams) + 1
    /\ pendingStarts' = RemoveAt(pendingStarts, i)
    /\ \E outcome \in StartOutcomes :
           /\ RecordOn(Len(streams) + 1, pendingStarts[i], outcome)
           /\ error' = IF outcome = "ok" THEN error
                       ELSE SetState(error, JsString("recorder failure"))
    /\ UNCHANGED <<pc, fn, input, output, parts, displayVars, scoreVars, assessVars,
                   audioBlob, chunksRef, resolveRef, promises, arrivals, startCalls>>

\* getUserMedia rejects for the i-th suspended start(): its catch clause runs.
GetUserMediaRejects(i) ==
    /\ i \in 1..Len(pendingStarts)
    /\ pendingStarts' = RemoveAt(pendingStarts, i)
    /\ error' = SetState(error, JsString("Microphone access denied"))
    /\ state' = SetState(state, "idle")
    /\ UNCHANGED <<pc, fn, input, output, parts, displayVars, scoreVars, assessVars,
                   audioBlob, refVars, recorders, streams, promises, arrivals,
                   startCalls>>

\* recorder.ondataavailable on data of the given size: chunksRef afterwards.
Pushed(size) == IF size > 0 THEN Append(chunksRef, arrivals + 1) ELSE chunksRef

\* The sizes the next data may have: a non-empty chunk within the bound.
NextSizes == {size \in ChunkSizes : size > 0 => arrivals < MaxChunks}

\* A recording recorder delivers the data of a timeslice.
DataAvailable(r) ==
    /\ r \in 1..Len(recorders)
    /\ recorders[r].st = "recording"
    /\ \E size \in NextSizes :
           /\ chunksRef' = Pushed(size)
           /\ arrivals' = arrivals + (IF size > 0 THEN 1 ELSE 0)
    /\ UNCHANGED <<pc, fn, input, output, parts, displayVars, scoreVars, assessVars,
                   hookVars, mediaRecorderRef, streamRef, resolveRef, recorders,
                   streams, pendingStarts, promises, startCalls>>

\* Recorder r delivers its last data and fires its stop event:
\* ondataavailable, then onstop, which builds the Blob from chunksRef.
FinalDataAndStop(r) ==
    \E size \in NextSizes :
        /\ chunksRef' = Pushed(size)
        /\ arrivals' = arrivals + (IF size > 0 THEN 1 ELSE 0)
        /\ audioBlob' = SetState(audioBlob, Blob(Pushed(size)))
        /\ state' = SetState(state, "idle")
        /\ promises' = Resolve(promises, resolveRef, Blob(Pushed(size)))
        /\ resolveRef' = 0
        /\ recorders' = [recorders EXCEPT ![r] = [@ EXCEPT !.st = "inactive"]]

\* The stop event of a recorder that stop() has stopped.
StopEventFires(r) ==
    /\ r \in 1..Len(recorders)
    /\ recorders[r].st = "stopping"
    /\ FinalDataAndStop(r)
    /\ UNCHANGED <<pc, fn, input, output, parts, displayVars, scoreVars, assessVars,
                   error, mediaRecorderRef, streamRef, streams, pendingStarts,
                   startCalls>>

\* A recording recorder whose stream has ended stops by itself.
TrackEnded(r) ==
    /\ r \in 1..Len(recorders)
    /\ recorders[r].st = "recording"
    /\ ~streams[recorders[r].stream]
    /\ FinalDataAndStop(r)
    /\ UNCHANGED <<pc, fn, input, output, parts, displayVars, scoreVars, assessVars,
                   error, mediaRecorderRef, streamRef, streams, pendingStarts,
                   startCalls>>

\* A recording recorder fails: its error event, then its last data and its
\* stop event.  onerror resolves the waiting stop() with null, so that
\* onstop finds resolveRef null.
RecorderError(r) ==
    /\ r \in 1..Len(recorders)
    /\ recorders[r].st = "recording"
    /\ \E size \in NextSizes :
           /\ chunksRef' = Pushed(size)
           /\ arrivals' = arrivals + (IF size > 0 THEN 1 ELSE 0)
           /\ audioBlob' = SetState(audioBlob, Blob(Pushed(size)))
    /\ error' = SetState(error, JsString("Recording error"))
    /\ state' = SetState(state, "idle")
    /\ promises' = Resolve(promises, resolveRef, NullBlob)
    /\ resolveRef' = 0
    /\ recorders' = [recorders EXCEPT ![r] = [@ EXCEPT !.st = "inactive"]]
    /\ UNCHANGED <<pc, fn, input, output, parts, displayVars, scoreVars, assessVars,
                   mediaRecorderRef, streamRef, streams, pendingStarts, startCalls>>

\* The tracks of a stream end (the device is removed, the permission revoked).
StreamEnds(s) ==
    /\ s \in 1..Len(streams)
    /\ streams[s]
    /\ streams' = [streams EXCEPT ![s] = FALSE]
    /\ UNCHANGED <<pc, fn, input, output, parts, displayVars, scoreVars, assessVars,
                   hookVars, refVars, recorders, pendingStarts, promises,
                   arrivals, startCalls>>

\* Mutation of StopGuard: the state is not looked at.
StopGuard_RecorderOnly(ref, st) == ref = 0

\* The early return of stop(): no recorder, or a state other than recording.
StopGuard(ref, st) == ref = 0 \/ st # "recording"

\* What MediaRecorder.stop() does on a recorder that is not recording: it
\* throws (the promise executor rejects the promise) or does nothing.
InactiveStopOutcomes == {"rejected", "pending"}

\* stop(): returns a new promise; past the guard it takes the promise as the
\* one to resolve, sets the state to processing and stops the recorder.
Stop ==
    /\ pc = "mounted"
    /\ Len(promises) < MaxStopCalls
    /\ IF StopGuard(mediaRecorderRef, state)
       THEN /\ promises' = Append(promises,
                   [status |-> "resolved", value |-> NullBlob, rec |-> 0])
            /\ UNCHANGED <<state, resolveRef, recorders>>
       ELSE /\ resolveRef' = Len(promises) + 1
            /\ state' = "processing"
            /\ IF recorders[mediaRecorderRef].st = "recording"
               THEN /\ recorders' = [recorders EXCEPT ![mediaRecorderRef] =
                                        [@ EXCEPT !.st = "stopping"]]
                    /\ promises' = Append(promises,
                           [status |-> "pending", value |-> NullBlob,
                            rec |-> mediaRecorderRef])
               ELSE /\ UNCHANGED recorders
                    /\ \E outcome \in InactiveStopOutcomes :
                           promises' = Append(promises,
                               [status |-> outcome, value |-> NullBlob,
                                rec |-> mediaRecorderRef])
    /\ UNCHANGED <<pc, fn, input, output, parts, displayVars, scoreVars, assessVars,
                   audioBlob, error, mediaRecorderRef, streamRef, chunksRef,
                   streams, pendingStarts, arrivals, startCalls>>

\* The component unmounts: the effect's cleanup stops the tracks of the
\* stream held.
Unmount ==
    /\ pc = "mounted"
    /\ pc' = "unmounted"
    /\ streams' = IF streamRef = 0 THEN streams
                  ELSE [streams EXCEPT ![streamRef] = FALSE]
    /\ UNCHANGED <<fn, input, output, parts, displayVars, scoreVars, assessVars,
                   hookVars, refVars, recorders, pendingStarts, promises,
                   arrivals, startCalls>>

(* Specification of the hook: any calls of start() and stop() on the       *)
(* mounted hook, any events of its recorders and streams                   *)

InitRecorder ==
    /\ pc = "mounted"
    /\ CallIdle
    /\ DisplayIdle
    /\ ScoreIdle
    /\ RecorderIdle
    /\ AssessIdle

NextRecorder ==
    \/ Start
    \/ \E i \in 1..Len(pendingStarts) : GetUserMediaResolves(i)
    \/ \E i \in 1..Len(pendingStarts) : GetUserMediaRejects(i)
    \/ \E r \in 1..Len(recorders) : DataAvailable(r)
    \/ \E r \in 1..Len(recorders) : StopEventFires(r)
    \/ \E r \in 1..Len(recorders) : TrackEnded(r)
    \/ \E r \in 1..Len(recorders) : RecorderError(r)
    \/ \E s \in 1..Len(streams) : StreamEnds(s)
    \/ Stop
    \/ Unmount

SpecRecorder == InitRecorder /\ [][NextRecorder]_vars

-----------------------------------------------------------------------------
(* Claims about the recorder hook                                          *)

\* This step is a call of stop(): it returns one more promise.
StopCalled == Len(promises') = Len(promises) + 1

\* This step is the stop event of recorder r, which stop() had stopped.
StopEventOf(r) == recorders[r].st = "stopping" /\ recorders'[r].st = "inactive"

\* The chunks that arrived after the first mark ones, up to the n-th, in
\* arrival order.
ChunksSince(mark, n) == [k \in 1..(n - mark) |-> mark + k]

\* C19: on the mounted hook, a stop() called in state recording sets the
\* state to processing; and when the stop event of the recorder it stopped
\* fires, the state becomes idle, audioBlob is set, and the promise that
\* stop() returned is resolved with the Blob of exactly the chunks that
\* arrived since the start() call that created the recorder, in arrival
\* order.
C19_StopLifecycle ==
    [][pc = "mounted" =>
         /\ (StopCalled /\ state = "recording") => state' = "processing"
         /\ \A r \in 1..Len(recorders) : \A p \in 1..Len(promises) :
              (StopEventOf(r) /\ promises[p].rec = r) =>
                  /\ state' = "idle"
                  /\ audioBlob'.isBlob
                  /\ promises'[p].status = "resolved"
                  /\ promises'[p].value =
                         Blob(ChunksSince(recorders[r].mark, arrivals'))
                  /\ audioBlob' = promises'[p].value]_vars

\* The new promise of a stop() call.
NewPromise == promises'[Len(promises')]

\* C20: a stop() called when there is no recorder or the state is not
\* recording returns a promise resolved with null and changes nothing: the
\* state, audioBlob, error, the recorder and every ref are as before, and no
\* recorder is asked to stop.
C20_StopOutsideRecording ==
    [][(StopCalled /\ (mediaRecorderRef = 0 \/ state # "recording")) =>
         /\ NewPromise.status = "resolved"
         /\ NewPromise.value = NullBlob
         /\ UNCHANGED <<hookVars, refVars, recorders>>
         /\ \A p \in 1..Len(promises) : promises'[p] = promises[p]]_vars

\* C20 witness: a second stop(), called in state processing while the first
\* waits for the stop event, was resolved with null; the first still waits
\* and is still the promise the stop event will resolve.
C20_Witness ==
    /\ pc = "mounted"
    /\ state = "processing"
    /\ Len(promises) = 2
    /\ promises[1].status = "pending"
    /\ promises[2] = [status |-> "resolved", value |-> NullBlob, rec |-> 0]
    /\ resolveRef = 1
    /\ recorders[mediaRecorderRef].st = "stopping"

\* This step is a call of start().
StartCalled == startCalls' = startCalls + 1

\* This step suspends the start() called at await getUserMedia.
StartSuspended == Len(pendingStarts') > Len(pendingStarts)

\* This step resumes a suspended start(): getUserMedia has settled.
StartResumed == Len(pendingStarts') < Len(pendingStarts)

\* This step ends a start() with its recorder recording.
RecordingBegan ==
    /\ Len(recorders') > Len(recorders)
    /\ recorders'[Len(recorders')].st = "recording"

\* This step ends a start() in its catch clause.
StartFailed == (StartCalled \/ StartResumed) /\ ~StartSuspended /\ ~RecordingBegan

\* C23: on the mounted hook, a start() that cannot get the microphone or
\* cannot create or start the recorder ends with the state idle and error
\* set to the message of the failure, and never sets the state to recording:
\* the state enters recording only where a start() ends with its recorder
\* recording.  Every start() clears audioBlob and error when it is called,
\* before the recorder is created, so that a start() that succeeds at once
\* begins recording with both null, and one that succeeds after its await
\* changes neither since its call.
C23_StartFailure ==
    [][pc = "mounted" =>
         /\ StartFailed =>
                /\ state' = "idle"
                /\ error' = JsString(IF StartResumed /\ Len(streams') = Len(streams)
                                     THEN "Microphone access denied"
                                     ELSE "recorder failure")
         /\ (state' = "recording" /\ state # "recording") => RecordingBegan
         /\ StartCalled =>
                /\ audioBlob' = NullBlob
                /\ ~StartFailed => error' = JsNull
         /\ RecordingBegan =>
                /\ state' = "recording"
                /\ StartCalled => (error' = JsNull /\ audioBlob' = NullBlob)
                /\ StartResumed => UNCHANGED <<error, audioBlob>>]_vars

\* C23 witness: of two start() calls the first failed and the second, made
\* after the failure, succeeded: the hook records with error and audioBlob
\* null.
C23_Witness ==
    /\ pc = "mounted"
    /\ startCalls = 2
    /\ pendingStarts = <<>>
    /\ Len(recorders) = 1
    /\ recorders[1].st = "recording"
    /\ state = "recording"
    /\ error = JsNull
    /\ audioBlob = NullBlob

\* getUserMedia is requested only by a start() that finds no active stream
\* held.
RequestOnlyWithoutStream == StartSuspended => ~StreamActive

\* While the first stream is active no other request has been granted or
\* is waiting: the request that gave the stream is the only one.
FirstStreamRequestedOnce ==
    (Len(streams') >= 1 /\ streams'[1]) =>
        (Len(streams') = 1 /\ pendingStarts' = <<>>)

\* The tracks of a stream stop only in the step that unmounts the component
\* or with no handler of the hook running (they end by themselves): no
\* recording that finishes or fails stops them.
TracksStopOnlyOnUnmount ==
    \A s \in 1..Len(streams) :
        (streams[s] /\ ~streams'[s]) =>
            \/ pc = "mounted" /\ pc' = "unmounted"
            \/ UNCHANGED <<hookVars, refVars, recorders, pendingStarts, promises>>

\* C24: over any sequence of start() and stop() calls, getUserMedia is
\* requested only when the hook holds no active stream, so that while the
\* first stream stays active it is requested at most once; and the tracks
\* of a stream are never stopped by a recording that finishes or fails,
\* only by the unmounting of the component.
C24_StreamReuse ==
    [][/\ RequestOnlyWithoutStream
       /\ FirstStreamRequestedOnce
       /\ TracksStopOnlyOnUnmount]_vars

-----------------------------------------------------------------------------
(* The POST /api/assess handler                                            *)
(*                                                                         *)
(* The repository holds two versions of the handler: that of               *)
(* routes/pronunciation.ts scores expectedRoman against the transcription; *)
(* the other one scores expectedWord and then awaits an analysis by a      *)
(* language model.  pc is "request" when the handler is entered,           *)
(* "transcribing" and "analyzing" while it awaits the two calls and        *)
(* "responded" when it has ended.  Word timings are left out.              *)

HandlerVersions == {"pronunciation.ts", "part_009"}

\* A thrown Error with its message, and a thrown value that is no Error.
Error(msg) == [isError |-> TRUE, message |-> msg]

NonError == [isError |-> FALSE, message |-> ""]

\* getOpenAI(): the Error it throws when the key is not set.
KeyMissing == Error("OPENAI_API_KEY is not set in backend/.env")

\* The values a call to the OpenAI client may throw.
ApiThrows == {Error("Connection error."), Error("401 Incorrect API key provided"), NonError}

\* What JSON.parse throws on a reply that is not JSON.
ParseThrows == Error("Unexpected end of JSON input")

\* s.trim()
RECURSIVE TrimStart(_)
TrimStart(s) ==
    IF s # "" /\ CharAt(s, 1) \in WhiteSpace THEN TrimStart(SliceFrom(s, 1)) ELSE s

RECURSIVE TrimEnd(_)
TrimEnd(s) ==
    IF s # "" /\ CharAt(s, Len(s)) \in WhiteSpace
    THEN TrimEnd(SubSeq(s, 1, Len(s) - 1))
    ELSE s

Trim(s) == TrimEnd(TrimStart(s))

\* transcriptionRes.text?.trim() ?? ''
TranscribedText(text) == IF IsNullish(text) THEN "" ELSE Trim(text.val)

\* charDiff(expected, transcribed): position by position over the longer of
\* the two normalized strings.
charDiff(e, t) ==
    LET exp == NormalizeForScore(e)
        got == NormalizeForScore(t)
        maxLen == IF Len(exp) >= Len(got) THEN Len(exp) ELSE Len(got)
    IN  [i \in 1..maxLen |->
            IF i <= Len(exp) /\ i <= Len(got)
            THEN [char |-> CharAt(got, i),
                  status |-> IF CharAt(exp, i) = CharAt(got, i)
                             THEN "correct" ELSE "wrong"]
            ELSE IF i <= Len(exp)
            THEN [char |-> CharAt(exp, i), status |-> "missing"]
            ELSE [char |-> CharAt(got, i), status |-> "extra"]]

\* buildFeedback(accuracy): one of four pairs of messages, named here by
\* their threshold in place of their text.
buildFeedback(accuracy) ==
    IF accuracy >= 90 THEN [th |-> "th: >= 90", ja |-> "ja: >= 90"]
    ELSE IF accuracy >= 70 THEN [th |-> "th: >= 70", ja |-> "ja: >= 70"]
    ELSE IF accuracy >= 50 THEN [th |-> "th: >= 50", ja |-> "ja: >= 50"]
    ELSE [th |-> "th: < 50", ja |-> "ja: < 50"]

\* The score analyzeWithGPT returns for the parsed score (<<>>: the reply
\* holds no number): Math.max(0, Math.min(100, score)), or 0.
AiScore(score) ==
    IF score = <<>> THEN 0
    ELSE IF score[1] > 100 THEN 100
    ELSE MathMax0(score[1])

\* The message of the catch clause.
ErrorMessage(e) == IF e.isError THEN e.message ELSE "Unknown error"

\* The fixed text before the message in feedback.th and feedback.ja.
FeedbackErrorTh ==
    "<0E40><0E01><0E34><0E14><0E02><0E49><0E2D><0E1C><0E34><0E14><0E1E><0E25><0E32><0E14>: "

FeedbackErrorJa == "<30A8><30E9><30FC><304C><767A><751F><3057><307E><3057><305F>: "

\* The analysis fields of a response: none in pronunciation.ts.
AiFields(h, aiScore) == IF h = "part_009" THEN <<aiScore>> ELSE <<>>

\* The object the try block returns.
SuccessResponse(h, l, aiScore) ==
    [ok |-> TRUE, transcribed |-> l.transcribed, accuracy |-> l.accuracy,
     charDiff |-> l.diff, feedback |-> l.feedback, error |-> JsUndefined,
     ai |-> AiFields(h, aiScore)]

\* The object the catch clause returns.
FailureResponse(h, msg) ==
    [ok |-> FALSE, transcribed |-> "", accuracy |-> 0, charDiff |-> <<>>,
     feedback |-> [th |-> FeedbackErrorTh \o msg, ja |-> FeedbackErrorJa \o msg],
     error |-> JsString(msg), ai |-> AiFields(h, 0)]

\* Mutation of InTry: getOpenAI() is called before the try block.
InTry_KeyCheckOutside(step) == step # "getOpenAI"

\* The steps of the handler that the try block encloses: all of them.
InTry(step) == step \in {"getOpenAI", "transcription", "analysis"}

\* How the handler ends when step throws e: the catch clause returns the
\* failure object, or the handler throws if no try encloses the step.
EndByThrow(step, e) ==
    IF InTry(step)
    THEN [ended |-> "returned", payload |-> FailureResponse(handler, ErrorMessage(e))]
    ELSE [ended |-> "threw", payload |-> FailureResponse(handler, "")]

\* The argument calcAccuracy and charDiff get in each version.
ExpectedArg(h, b) == IF h = "pronunciation.ts" THEN b.expectedRoman ELSE b.expectedWord

\* The locals of the handler after the transcription gave the text.
AssessLocals(h, b, text) ==
    LET t == TranscribedText(text)
        accuracy == calcAccuracy(ExpectedArg(h, b), t)
    IN  [transcribed |-> t, accuracy |-> accuracy,
         diff |-> charDiff(ExpectedArg(h, b), t),
         feedback |-> buildFeedback(accuracy)]

\* The request bodies and the replies of the two calls.
ExpectedWords == {"ab", "b a"}

ExpectedRomans == {"", "ka", "Ka a"}

TranscriptionTexts ==
    {JsUndefined, JsString(""), JsString(" ka "), JsString("KAA"), JsString("ab"),
     JsString("xyz yz")}

TranscriptionOutcomes ==
    {[threw |-> FALSE, err |-> NonError, text |-> t] : t \in TranscriptionTexts}
    \cup {[threw |-> TRUE, err |-> e, text |-> JsUndefined] : e \in ApiThrows}

AnalysisOutcomes ==
    {[threw |-> FALSE, err |-> NonError, score |-> n] : n \in {<<>>, <<-5>>, <<85>>, <<120>>}}
    \cup {[threw |-> TRUE, err |-> e, score |-> <<>>] : e \in ApiThrows \cup {ParseThrows}}

(* Specification of the handler: one request                               *)

InitAssess ==
    /\ pc = "request"
    /\ CallIdle
    /\ DisplayIdle
    /\ ScoreIdle
    /\ RecorderIdle
    /\ handler \in HandlerVersions
    /\ apiKey \in BOOLEAN
    /\ body \in [expectedWord : ExpectedWords, expectedRoman : ExpectedRomans,
                 lang : {"ja", "th"}]
    /\ locals = <<>>
    /\ thrown = <<>>
    /\ response = <<>>

\* The handler up to its first await: getOpenAI() and the transcription call.
AssessBegin ==
    /\ pc = "request"
    /\ IF apiKey
       THEN /\ pc' = "transcribing"
            /\ UNCHANGED <<thrown, response>>
       ELSE /\ pc' = "responded"
            /\ thrown' = <<KeyMissing>>
            /\ response' = <<EndByThrow("getOpenAI", KeyMissing)>>
    /\ UNCHANGED <<fn, input, output, parts, displayVars, scoreVars, recorderVars,
                   handler, apiKey, body, locals>>

\* The transcription call settles: the handler scores the text and, by its
\* version, returns or awaits the analysis; or the call throws.
TranscriptionSettles ==
    /\ pc = "transcribing"
    /\ \E o \in TranscriptionOutcomes :
           IF o.threw
           THEN /\ pc' = "responded"
                /\ thrown' = <<o.err>>
                /\ response' = <<EndByThrow("transcription", o.err)>>
                /\ UNCHANGED locals
           ELSE LET l == AssessLocals(handler, body, o.text) IN
                /\ locals' = <<l>>
                /\ UNCHANGED thrown
                /\ IF handler = "pronunciation.ts"
                   THEN /\ pc' = "responded"
                        /\ response' = <<[ended |-> "returned",
                                          payload |-> SuccessResponse(handler, l, 0)]>>
                   ELSE /\ pc' = "analyzing"
                        /\ UNCHANGED response
    /\ UNCHANGED <<fn, input, output, parts, displayVars, scoreVars, recorderVars,
                   handler, apiKey, body>>

\* analyzeWithGPT settles: the handler returns its object, or the call or
\* the parsing of its reply throws.
AnalysisSettles ==
    /\ pc = "analyzing"
    /\ pc' = "responded"
    /\ \E o \in AnalysisOutcomes :
           IF o.threw
           THEN /\ thrown' = <<o.err>>
                /\ response' = <<EndByThrow("analysis", o.err)>>
           ELSE /\ UNCHANGED thrown
                /\ response' = <<[ended |-> "returned",
                                  payload |-> SuccessResponse(handler, locals[1],
                                                              AiScore(o.score))]>>
    /\ UNCHANGED <<fn, input, output, parts, displayVars, scoreVars, recorderVars,
                   handler, apiKey, body, locals>>

NextAssess == AssessBegin \/ TranscriptionSettles \/ AnalysisSettles

SpecAssess == InitAssess /\ [][NextAssess]_vars

-----------------------------------------------------------------------------
(* Claims about the handler                                                *)

\* C22: the handler always ends by returning a response.  When the key is
\* missing or a call threw, the response has ok = false, transcribed = "",
\* accuracy = 0, an empty charDiff, and the message of the error in error and
\* at the end of both feedback texts; when nothing threw it has ok = true,
\* accuracy = calcAccuracy of the expected text and the transcription, and no
\* error field.
C22_AssessNeverThrows ==
    pc = "responded" =>
        LET r == response[1]
            p == r.payload
        IN  /\ r.ended = "returned"
            /\ ~apiKey => thrown = <<KeyMissing>>
            /\ IF thrown # <<>>
               THEN /\ ~p.ok
                    /\ p.transcribed = ""
                    /\ p.accuracy = 0
                    /\ p.charDiff = <<>>
                    /\ p.error.type = "string"
                    /\ p.error.val # ""
                    /\ thrown[1].isError => p.error.val = thrown[1].message
                    /\ EndsWith(p.feedback.th, p.error.val)
                    /\ EndsWith(p.feedback.ja, p.error.val)
               ELSE /\ p.ok
                    /\ p.transcribed = locals[1].transcribed
                    /\ p.accuracy =
                         calcAccuracy(IF handler = "pronunciation.ts"
                                      THEN body.expectedRoman
                                      ELSE body.expectedWord,
                                      p.transcribed)
                    /\ p.error = JsUndefined

\* C22 witness: the transcription gave "ab" for the expected word "ab"
\* (accuracy 100), then the analysis threw: the response is the failure
\* object with the message of the error.
C22_Witness ==
    /\ pc = "responded"
    /\ handler = "part_009"
    /\ body.expectedWord = "ab"
    /\ locals # <<>>
    /\ locals[1].accuracy = 100
    /\ thrown = <<ParseThrows>>
    /\ response[1].ended = "returned"
    /\ response[1].payload.accuracy = 0
    /\ response[1].payload.error = JsString("Unexpected end of JSON input")

====
